---- MODULE Spec2Model ----
(***************************************************************************)
(* voyeurs: synchronised playback of several mpv instances.                *)
(*                                                                         *)
(* Part I   the packet codec (proto.rs) as pure operators.                 *)
(* Part II  the room, the peer sessions (client_message_handler.rs) and    *)
(*          the event bridge (mpv_event_handler.rs) as a state machine.    *)
(***************************************************************************)
EXTENDS Integers, Sequences, FiniteSets, TLC

VARIABLES
    codec_in,    \* the value handed to the codec
    codec_wire,  \* (cmd_code, args) produced by to_bytes
    codec_out,   \* the result of from_bytes / read_packet
    codec_pc,    \* "start", "encoded", "decoded"
    proc,        \* per process: settings, Shared (peers, ignore_next, is_ready),
                 \* the Mutex, its session tasks, its player and event stream
    chan,        \* frames in flight, per directed link <<from, to>>
    nuser,       \* user actions so far
    nenv,        \* frames and closes injected by simulated peers so far
    last         \* history: the last step of a session or of the event bridge

codecvars == <<codec_in, codec_wire, codec_out, codec_pc>>
sysvars == <<proc, chan, nuser, nenv, last>>
vars == <<codec_in, codec_wire, codec_out, codec_pc, proc, chan, nuser, nenv, last>>

None == [tag |-> "None"]

(***************************************************************************)
(* Part I: proto.rs                                                        *)
(***************************************************************************)

PROTOCOL_VERSION == 1

Take(s, n) == SubSeq(s, 1, n)
Drop(s, n) == SubSeq(s, n + 1, Len(s))
Min(a, b) == IF a < b THEN a ELSE b

RECURSIVE Reverse(_)
Reverse(s) == IF s = <<>> THEN <<>> ELSE Append(Reverse(Tail(s)), Head(s))

\* u16::to_be_bytes / u16::from_be_bytes
U16ToBeBytes(n) == <<(n \div 256) % 256, n % 256>>
U16FromBeBytes(b) == b[1] * 256 + b[2]

\* An f64 is its IEEE-754 fields: sign (1 bit), exp (11 bits) and the 52-bit
\* mantissa as its top nibble (hi) and its low six bytes (lo).
F64(sign, exp, hi, lo) == [sign |-> sign, exp |-> exp, hi |-> hi, lo |-> lo]

IsNaN(f) == f.exp = 2047 /\ (f.hi # 0 \/ f.lo # <<0, 0, 0, 0, 0, 0>>)
IsZero(f) == f.exp = 0 /\ f.hi = 0 /\ f.lo = <<0, 0, 0, 0, 0, 0>>

\* f64's PartialEq: NaN equals nothing, +0.0 equals -0.0.
F64Eq(a, b) ==
    IF IsNaN(a) \/ IsNaN(b) THEN FALSE
    ELSE IF IsZero(a) /\ IsZero(b) THEN TRUE
    ELSE a = b

\* f64::to_le_bytes, the byte order a slip would produce.
F64ToLeBytes(f) ==
    Reverse(<<f.sign * 128 + f.exp \div 16, (f.exp % 16) * 16 + f.hi>> \o f.lo)

\* f64::to_be_bytes
F64ToBeBytes(f) ==
    <<f.sign * 128 + f.exp \div 16, (f.exp % 16) * 16 + f.hi>> \o f.lo

\* f64::from_be_bytes
F64FromBeBytes(b) ==
    F64(b[1] \div 128, (b[1] % 128) * 16 + b[2] \div 16, b[2] % 16, SubSeq(b, 3, 8))

\* std's UTF-8 validation (String::from_utf8): a String is a byte vector
\* that passes it, and as_bytes is a view of those bytes.
IsCont(b) == b >= 128 /\ b <= 191

RECURSIVE Utf8Valid(_)
Utf8Valid(s) ==
    IF s = <<>> THEN TRUE
    ELSE LET b == s[1] IN
      IF b < 128 THEN Utf8Valid(Tail(s))
      ELSE IF b >= 194 /\ b <= 223
        THEN Len(s) >= 2 /\ IsCont(s[2]) /\ Utf8Valid(Drop(s, 2))
      ELSE IF b >= 224 /\ b <= 239
        THEN /\ Len(s) >= 3 /\ IsCont(s[2]) /\ IsCont(s[3])
             /\ (b = 224 => s[2] >= 160)
             /\ (b = 237 => s[2] <= 159)
             /\ Utf8Valid(Drop(s, 3))
      ELSE IF b >= 240 /\ b <= 244
        THEN /\ Len(s) >= 4 /\ IsCont(s[2]) /\ IsCont(s[3]) /\ IsCont(s[4])
             /\ (b = 240 => s[2] >= 144)
             /\ (b = 244 => s[2] <= 143)
             /\ Utf8Valid(Drop(s, 4))
      ELSE FALSE

\* enum VoyeursCommand
NewConnection(name) == [k |-> "NewConnection", s |-> name]
Ready(p) == [k |-> "Ready", p |-> p]
Seek(t) == [k |-> "Seek", t |-> t]
Filename(f) == [k |-> "Filename", s |-> f]
Duration(t) == [k |-> "Duration", t |-> t]
StreamName(n) == [k |-> "StreamName", s |-> n]
GetStreamName == [k |-> "GetStreamName"]

\* #[derive(PartialEq)] on VoyeursCommand
CmdEq(a, b) ==
    /\ a.k = b.k
    /\ CASE a.k \in {"NewConnection", "Filename", "StreamName"} -> a.s = b.s
         [] a.k = "Ready" -> a.p = b.p
         [] a.k \in {"Seek", "Duration"} -> F64Eq(a.t, b.t)
         [] OTHER -> TRUE

Ok(c) == [tag |-> "Ok", cmd |-> c]
Err(e) == [tag |-> "Err", err |-> e]
Panic == [tag |-> "Panic"]

Wire(code, args) == [code |-> code, args |-> args]

\* VoyeursCommand::to_bytes
to_bytes(c) ==
    CASE c.k = "NewConnection" -> Wire(0, U16ToBeBytes(PROTOCOL_VERSION) \o c.s)
      [] c.k = "Ready" -> Wire(1, <<IF c.p THEN 1 ELSE 0>>)
      [] c.k = "Seek" -> Wire(2, F64ToBeBytes(c.t))
      [] c.k = "Filename" -> Wire(3, c.s)
      [] c.k = "Duration" -> Wire(4, F64ToBeBytes(c.t))
      [] c.k = "StreamName" -> Wire(5, c.s)
      [] c.k = "GetStreamName" -> Wire(6, <<>>)

\* String::from_utf8(bytes).map(ctor)?
FromUtf8(ctor, bytes) ==
    IF Utf8Valid(bytes) THEN Ok([k |-> ctor, s |-> bytes]) ELSE Err("FromUtf8Error")

\* A decoder that parses the username before it compares the version.
from_bytes_name_first(cmd_code, args) ==
    CASE cmd_code = 0 ->
           IF Len(args) < 2 THEN Err("TooShort")
           ELSE IF ~Utf8Valid(Drop(args, 2)) THEN Err("FromUtf8Error")
           ELSE IF U16FromBeBytes(Take(args, 2)) # PROTOCOL_VERSION
             THEN Err("UncompatibleProtocolVersion")
           ELSE Ok(NewConnection(Drop(args, 2)))
      [] cmd_code = 1 -> IF Len(args) = 0 THEN Panic ELSE Ok(Ready(args[1] = 1))
      [] cmd_code = 2 ->
           IF Len(args) < 8 THEN Err("TooShort")
           ELSE Ok(Seek(F64FromBeBytes(Take(args, 8))))
      [] cmd_code = 3 -> FromUtf8("Filename", args)
      [] cmd_code = 4 ->
           IF Len(args) < 8 THEN Err("TooShort")
           ELSE Ok(Duration(F64FromBeBytes(Take(args, 8))))
      [] cmd_code = 5 -> FromUtf8("StreamName", args)
      [] cmd_code = 6 -> Ok(GetStreamName)
      [] OTHER -> Err("UnkownCommand")

\* VoyeursCommand::from_bytes
from_bytes(cmd_code, args) ==
    CASE cmd_code = 0 ->
           IF Len(args) < 2 THEN Err("TooShort")
           ELSE IF U16FromBeBytes(Take(args, 2)) # PROTOCOL_VERSION
             THEN Err("UncompatibleProtocolVersion")
           ELSE FromUtf8("NewConnection", Drop(args, 2))
      [] cmd_code = 1 ->
           \* args.get(0).unwrap()
           IF Len(args) = 0 THEN Panic ELSE Ok(Ready(args[1] = 1))
      [] cmd_code = 2 ->
           IF Len(args) < 8 THEN Err("TooShort")
           ELSE Ok(Seek(F64FromBeBytes(Take(args, 8))))
      [] cmd_code = 3 -> FromUtf8("Filename", args)
      [] cmd_code = 4 ->
           IF Len(args) < 8 THEN Err("TooShort")
           ELSE Ok(Duration(F64FromBeBytes(Take(args, 8))))
      [] cmd_code = 5 -> FromUtf8("StreamName", args)
      [] cmd_code = 6 -> Ok(GetStreamName)
      [] OTHER -> Err("UnkownCommand")

\* OwnedReadHalf::try_read(buf) with a buffer of n bytes, on a socket that
\* holds the bytes `avail` and whose peer has (eof) or has not closed:
\* WouldBlock when nothing is there yet, Ok(0) at end of stream, and
\* otherwise as many bytes as are there, up to n.
try_read(avail, eof, n) ==
    IF avail = <<>> /\ ~eof /\ n > 0
    THEN [err |-> TRUE, got |-> <<>>, rest |-> avail]
    ELSE [err |-> FALSE, got |-> Take(avail, Min(n, Len(avail))),
          rest |-> Drop(avail, Min(n, Len(avail)))]

\* A buffer of n zero bytes overwritten from its start by what was read.
ZeroFill(got, n) == [i \in 1..n |-> IF i <= Len(got) THEN got[i] ELSE 0]

\* PacketReader::read_packet once readable() has first returned: the socket
\* holds data or is at end of stream, so the first try_read does not block.
read_packet(avail, eof) ==
    LET t == try_read(avail, eof, 8)
        c == try_read(t.rest, eof, 1) IN
    IF c.err THEN Err("WouldBlock")
    ELSE LET cmd_code == ZeroFill(c.got, 1)[1]
             l == try_read(c.rest, eof, 2) IN
      IF l.err THEN Err("WouldBlock")
      ELSE LET len == U16FromBeBytes(ZeroFill(l.got, 2))
               a == try_read(l.rest, eof, len) IN
        IF len > 0 /\ a.err THEN Err("WouldBlock")
        ELSE IF len > 0 /\ Len(a.got) # len THEN Err("TooShort")
        ELSE from_bytes(cmd_code, IF len > 0 THEN a.got ELSE <<>>)

(***************************************************************************)
(* The codec on bounded inputs.                                            *)
(***************************************************************************)

\* A u64 is its eight big-endian bytes, as TsSize::to_be_bytes lays it out; an
\* i64 cast `as u64` keeps its bytes (two's complement).
RECURSIVE AddBytes(_, _, _, _)
AddBytes(a, b, i, carry) ==
    IF i = 0 THEN [v |-> <<>>, carry |-> carry]
    ELSE LET d == a[i] + b[i] + carry
             r == AddBytes(a, b, i - 1, d \div 256)
         IN [v |-> Append(r.v, d % 256), carry |-> r.carry]

RECURSIVE SubBytes(_, _, _, _)
SubBytes(a, b, i, borrow) ==
    IF i = 0 THEN [v |-> <<>>, carry |-> borrow]
    ELSE LET d == a[i] - b[i] - borrow
             r == SubBytes(a, b, i - 1, IF d < 0 THEN 1 ELSE 0)
         IN [v |-> Append(r.v, d % 256), carry |-> r.carry]

Negative(delta) == delta[1] >= 128

\* A u64 result: its bytes, and whether they are the mathematical result.
Measured(v, exact) == [tag |-> "Ok", v |-> v, exact |-> exact]

\* get_timestamp: the system's milliseconds plus TIME_DELTA as TsSize. The
\* `+` panics on overflow in a build with overflow checks and wraps in one
\* without; adding a negative delta's bytes always overflows, and then the
\* wrapped sum is the corrected time.
get_timestamp(ms, delta, checks) ==
    LET r == AddBytes(ms, delta, 8, 0) IN
    IF r.carry = 1 /\ checks THEN Panic
    ELSE Measured(r.v, IF Negative(delta) THEN r.carry = 1 ELSE r.carry = 0)

\* let t_delta = get_timestamp() - packet.timestamp
t_delta(ms, delta, timestamp, checks) ==
    LET now == get_timestamp(ms, delta, checks) IN
    IF now.tag = "Panic" THEN Panic
    ELSE LET r == SubBytes(now.v, timestamp, 8, 0) IN
         IF r.carry = 1 /\ checks THEN Panic
         ELSE Measured(r.v, now.exact /\ r.carry = 0)

\* `args.len() as LenSize` keeps the low 16 bits of the length.
LenSizeRange == 65536

\* Packet::compile
compile(timestamp, command) ==
    LET w == to_bytes(command) IN
    timestamp \o <<w.code>> \o U16ToBeBytes(Len(w.args) % LenSizeRange) \o w.args

MaxRawLen == 2
MaxDeclared == 3

ByteSamples == {0, 1, 255}
ZeroLo == <<0, 0, 0, 0, 0, 0>>
F64Samples ==
    {F64(sg, e, h, l) : sg \in {0, 1}, e \in {0, 1026, 2047}, h \in {0, 9},
                        l \in {ZeroLo, <<0, 0, 0, 0, 0, 1>>}}
TwelveAndHalf == F64(0, 1026, 9, ZeroLo)
F64Zero == F64(0, 0, 0, ZeroLo)
F64One == F64(0, 1023, 0, ZeroLo)

\* "", "a", "bob2", "b!", and e-acute (two bytes)
StringSamples == {<<>>, <<97>>, <<98, 111, 98, 50>>, <<98, 33>>, <<195, 169>>}

CommandSamples ==
    {NewConnection(s) : s \in StringSamples} \cup {Filename(s) : s \in StringSamples}
    \cup {StreamName(s) : s \in StringSamples} \cup {Ready(p) : p \in BOOLEAN}
    \cup {Seek(t) : t \in F64Samples} \cup {Duration(t) : t \in F64Samples}
    \cup {GetStreamName}

ShortSeqs == UNION {[1..n -> ByteSamples] : n \in 0..MaxRawLen}
RawArgs ==
    ShortSeqs
    \cup {Take(F64ToBeBytes(TwelveAndHalf), 7), F64ToBeBytes(TwelveAndHalf),
          F64ToBeBytes(TwelveAndHalf) \o <<1>>}
    \cup {<<0, 1, 97>>, <<0, 1, 255>>, <<0, 2, 97>>, <<0, 1>>}
    \cup {<<0, 2, 255>>, <<1, 1, 195>>}
Codes == 0..7
TsBytes == <<0, 0, 0, 0, 0, 0, 0, 1>>

\* A frame as Packet::compile lays it out, declaring `declared` argument
\* bytes and followed on the socket by `payload`.
FrameBytes(code, declared, payload) ==
    TsBytes \o <<code>> \o U16ToBeBytes(declared) \o payload

\* 1000 ms, 1008 ms and 3 ms; a clock correction of 0, +2 and -2 ms
U64Samples == {<<0, 0, 0, 0, 0, 0, 3, 232>>, <<0, 0, 0, 0, 0, 0, 3, 240>>,
               <<0, 0, 0, 0, 0, 0, 0, 3>>}
DeltaSamples == {<<0, 0, 0, 0, 0, 0, 0, 0>>, <<0, 0, 0, 0, 0, 0, 0, 2>>,
                 <<255, 255, 255, 255, 255, 255, 255, 254>>}

\* A string of n bytes "a"; the lengths around what LenSize counts.
Filled(n) == [i \in 1..n |-> 97]
FillSamples == {0, 1, LenSizeRange - 1, LenSizeRange, LenSizeRange + 1}

\* What a reader of the frame f finds: the fixed fields, and the number of
\* bytes that follow them.
Framing(f) ==
    [timestamp |-> Take(f, 8), code |-> f[9],
     arg_length |-> U16FromBeBytes(SubSeq(f, 10, 11)), nargs |-> Len(f) - 11]

CodecInputs ==
    {[kind |-> "cmd", cmd |-> c] : c \in CommandSamples}
    \cup {[kind |-> "packet", timestamp |-> TsBytes, cmd |-> c] :
            c \in CommandSamples}
    \cup {[kind |-> "filled", timestamp |-> TsBytes, fill |-> n] : n \in FillSamples}
    \cup {[kind |-> "latency", ms |-> m, delta |-> d, timestamp |-> t, checks |-> k] :
            m \in U64Samples, d \in DeltaSamples, t \in U64Samples, k \in BOOLEAN}
    \cup {[kind |-> "raw", code |-> c, args |-> a] : c \in Codes, a \in RawArgs}
    \cup {[kind |-> "stream", code |-> c, declared |-> d, payload |-> a, eof |-> e] :
            c \in Codes, d \in 0..MaxDeclared, a \in ShortSeqs, e \in BOOLEAN}

CodecInit ==
    /\ codec_in \in CodecInputs
    /\ codec_wire = None
    /\ codec_out = None
    /\ codec_pc = "start"
    /\ proc = [p \in {} |-> None] /\ chan = [l \in {} |-> <<>>]
    /\ nuser = 0 /\ nenv = 0 /\ last = None

\* cmd.to_bytes()
CodecEncode ==
    /\ codec_pc = "start" /\ codec_in.kind = "cmd"
    /\ codec_wire' = to_bytes(codec_in.cmd)
    /\ codec_pc' = "encoded"
    /\ UNCHANGED <<codec_in, codec_out>>

\* VoyeursCommand::from_bytes(cmd_code, args) on what to_bytes produced
CodecDecode ==
    /\ codec_pc = "encoded"
    /\ codec_out' = from_bytes(codec_wire.code, codec_wire.args)
    /\ codec_pc' = "decoded"
    /\ UNCHANGED <<codec_in, codec_wire>>

\* VoyeursCommand::from_bytes on arbitrary bytes
CodecDecodeRaw ==
    /\ codec_pc = "start" /\ codec_in.kind = "raw"
    /\ codec_out' = from_bytes(codec_in.code, codec_in.args)
    /\ codec_pc' = "decoded"
    /\ UNCHANGED <<codec_in, codec_wire>>

\* PacketReader::read_packet on a socket holding one frame
CodecReadPacket ==
    /\ codec_pc = "start" /\ codec_in.kind = "stream"
    /\ codec_out' = read_packet(
          FrameBytes(codec_in.code, codec_in.declared, codec_in.payload), codec_in.eof)
    /\ codec_pc' = "decoded"
    /\ UNCHANGED <<codec_in, codec_wire>>

\* handle_connection, line 57, on a packet read_packet returned
CodecLatency ==
    /\ codec_pc = "start" /\ codec_in.kind = "latency"
    /\ codec_out' = t_delta(codec_in.ms, codec_in.delta, codec_in.timestamp,
                            codec_in.checks)
    /\ codec_pc' = "measured"
    /\ UNCHANGED <<codec_in, codec_wire>>

\* Packet { timestamp, command }.compile()
CodecCompile ==
    /\ codec_pc = "start" /\ codec_in.kind = "packet"
    /\ codec_wire' = compile(codec_in.timestamp, codec_in.cmd)
    /\ codec_pc' = "compiled"
    /\ UNCHANGED <<codec_in, codec_out>>

\* Packet { timestamp, command }.compile() on a Filename of codec_in.fill
\* bytes; of the frame the state keeps the fixed fields and the size.
CodecCompileFilled ==
    /\ codec_pc = "start" /\ codec_in.kind = "filled"
    /\ codec_wire' = Framing(compile(codec_in.timestamp, Filename(Filled(codec_in.fill))))
    /\ codec_pc' = "framed"
    /\ UNCHANGED <<codec_in, codec_out>>

CodecNext ==
    \/ CodecCompile /\ UNCHANGED sysvars
    \/ CodecCompileFilled /\ UNCHANGED sysvars
    \/ CodecLatency /\ UNCHANGED sysvars
    \/ CodecEncode /\ UNCHANGED sysvars
    \/ CodecDecode /\ UNCHANGED sysvars
    \/ CodecDecodeRaw /\ UNCHANGED sysvars
    \/ CodecReadPacket /\ UNCHANGED sysvars

SpecCodec == CodecInit /\ [][CodecNext]_vars

(***************************************************************************)
(* Part II: Shared (the room), handle_connection (the sessions),           *)
(* handle_mpv_event (the event bridge) and the player they drive.          *)
(***************************************************************************)

MaxUser == 1
MaxEnv == 4
MaxPending == 2

Procs == {"H", "X"}             \* the hub and a client (Spec)
RoomPeers == {"A", "B", "C"}    \* the addresses of simulated peers (SpecRoom)
Nodes == Procs \cup RoomPeers
SysLinks == {<<"H", "X">>, <<"X", "H">>}

\* Cli::username's default, "user"
DefaultUsername == <<117, 115, 101, 114>>
Bob2 == <<98, 111, 98, 50>>
BobBang == <<98, 33>>
LocalPath == <<102>>            \* "f": no URL
UrlPath == <<104, 58, 47>>      \* "h:/": parses as a URL
PlayerFilename == <<102>>
PlayerDuration == F64(0, 1026, 9, <<0, 0, 0, 0, 0, 1>>)
PosSamples == {F64Zero, TwelveAndHalf}

\* Url::parse(path).is_ok(), on the sampled paths
IsUrl(path) == path = UrlPath

\* str::chars on strings of one- and two-byte characters
RECURSIVE Chars(_)
Chars(s) ==
    IF s = <<>> THEN <<>>
    ELSE IF s[1] < 128 THEN <<s[1]>> \o Chars(Tail(s))
    ELSE <<(s[1] - 192) * 64 + (s[2] - 128)>> \o Chars(Drop(s, 2))

\* char::is_alphanumeric, on code points below 256
is_alphanumeric(c) ==
    \/ c >= 48 /\ c <= 57
    \/ c >= 65 /\ c <= 90
    \/ c >= 97 /\ c <= 122
    \/ c \in {170, 178, 179, 181, 185, 186, 188, 189, 190}
    \/ c >= 192 /\ c <= 255 /\ c \notin {215, 247}

\* A validation that lets every username through.
AcceptAnyUsername(username) == TRUE

\* username.chars().all(char::is_alphanumeric)
ValidUsername(username) ==
    \A i \in 1..Len(Chars(username)) : is_alphanumeric(Chars(username)[i])

\* mpv events, as the bridge's event_listen returns them
PauseEv(v) == [e |-> "Pause", v |-> v]
SeekingEv(v) == [e |-> "Seeking", v |-> v]
OtherEv == [e |-> "Other", v |-> FALSE]
ShutdownEv == [e |-> "Shutdown", v |-> FALSE]
EndFileEv == [e |-> "EndFile", v |-> FALSE]
\* The "seeking" property changes a seek makes the player report: the change
\* to true may be coalesced away.
SeekEventSeqs == {<<SeekingEv(FALSE)>>, <<SeekingEv(TRUE), SeekingEv(FALSE)>>}

\* calls made on the player
SetPauseCall(v) == [c |-> "set_pause", v |-> v]
PauseCall == [c |-> "pause", v |-> TRUE]
SeekCall(t) == [c |-> "seek", v |-> t]
LoadFileCall(f) == [c |-> "loadfile", v |-> f]
ShowTextCall(m) == [c |-> "show-text", v |-> m]

NoPeers == [b \in {} |-> FALSE]

\* Peer { tx, username: Default::default(), ready: false, latency }
NewPeer == [username |-> <<>>, ready |-> FALSE]

Insert(peers, a, v) == [b \in DOMAIN peers \cup {a} |-> IF b = a THEN v ELSE peers[b]]
Remove(peers, a) == [b \in DOMAIN peers \ {a} |-> peers[b]]

\* Settings
Settings(is_serving, accept_source, standalone) ==
    [is_serving |-> is_serving, accept_source |-> accept_source,
     standalone |-> standalone, username |-> DefaultUsername]

\* A process after start-up: Shared::new(), no session yet, the player
\* playing from position 0 and the ready bit agreeing with it.
InitProc(st, path) ==
    [settings |-> st,
     peers |-> NoPeers, ignore_next |-> FALSE, is_ready |-> TRUE,
     lock |-> "free",
     sess |-> [a \in Nodes |-> "none"],
     pause |-> FALSE, pos |-> F64Zero, path |-> path, loading |-> <<>>,
     events |-> <<>>,
     player |-> "alive", bridge |-> "run", exit |-> "running",
     user |-> "none", user_ev |-> 0]

\* The process has not called exit.
Running(s) == s.exit = "running"

\* The player answers commands. Once it has shut down, every command on it
\* fails; the model then follows the event bridge of that process up to the
\* Shutdown event, and no longer its sessions.
Alive(s) == Running(s) /\ s.player = "alive"

\* mpv.get_property("playback-time").unwrap_or_default()
PlaybackTime(s) == IF s.player = "alive" THEN s.pos ELSE F64Zero

\* The player: a property-change event follows a change of "pause"; a seek
\* moves the position and reports its "seeking" changes.
PlayerSetPause(s, v) ==
    IF s.pause = v THEN s
    ELSE [s EXCEPT !.pause = v, !.events = Append(@, PauseEv(v))]
PlayerSeek(s, t, evs) == [s EXCEPT !.pos = t, !.events = @ \o evs]

RECURSIVE SetToSeq(_)
SetToSeq(S) ==
    IF S = {} THEN <<>>
    ELSE LET x == CHOOSE y \in S : TRUE IN <<x>> \o SetToSeq(S \ {x})

Msg(to, cmd) == [to |-> to, cmd |-> cmd]

\* Shared::send
Send(s, addr, command) == <<Msg(addr, command)>>

\* Shared::broadcast
Broadcast(s, command) == SetToSeq({Msg(b, command) : b \in DOMAIN s.peers})

\* Shared::broadcast_excluding
BroadcastExcluding(s, command, addr) ==
    SetToSeq({Msg(b, command) : b \in DOMAIN s.peers \ {addr}})

\* The frames a step sent, put on the links that are modelled (the wire to
\* a simulated peer is not).
RECURSIVE Deliver(_, _, _)
Deliver(ch, p, sent) ==
    IF sent = <<>> THEN ch
    ELSE LET l == <<p, Head(sent).to>>
             ch1 == IF l \in DOMAIN ch
                    THEN [ch EXCEPT ![l] = Append(@, to_bytes(Head(sent).cmd))]
                    ELSE ch
         IN Deliver(ch1, p, Tail(sent))

\* What a step of a task did: the process afterwards, the frames sent, the
\* player calls made and where the task is next.
Outcome(s, sent, calls, pc) == [s |-> s, sent |-> sent, calls |-> calls, pc |-> pc]

Flag(s) == [s EXCEPT !.ignore_next = TRUE]

\* A vote that one ready peer is enough to win.
AnyPeerReady(s) == s.is_ready /\ \E b \in DOMAIN s.peers : s.peers[b].ready

\* s.is_ready && s.peers.values().all(|r| r.ready)
Unanimous(s) == s.is_ready /\ \A b \in DOMAIN s.peers : s.peers[b].ready

\* A process that forwards whether or not it is the hub.
ForwardsAlways(s) == TRUE

\* if settings.is_serving { ...broadcast... }
Forwards(s) == s.settings.is_serving

\* VoyeursCommand::Ready(p), standalone
ReadyStandalone(s, addr, p) ==
    LET s1 == IF s.pause = p THEN PlayerSetPause(Flag(s), ~p) ELSE s
        calls == IF s.pause = p THEN <<SetPauseCall(~p)>> ELSE <<>>
    IN Outcome(s1, IF Forwards(s) THEN Broadcast(s1, Ready(p)) ELSE <<>>, calls, "read")

\* A Ready{false} that sets the flag whether or not it pauses the player.
ReadyBarrierFlagsAlways(s, addr, p) ==
    LET s0 == [s EXCEPT !.peers[addr].ready = p] IN
    IF ~p
    THEN Outcome(IF ~s0.pause THEN PlayerSetPause(Flag(s0), TRUE) ELSE Flag(s0),
                 IF Forwards(s0) THEN BroadcastExcluding(s0, Ready(FALSE), addr) ELSE <<>>,
                 IF ~s0.pause THEN <<SetPauseCall(TRUE)>> ELSE <<>>,
                 "read")
    ELSE IF Unanimous(s0)
    THEN Outcome(IF s0.pause THEN PlayerSetPause(Flag(s0), FALSE) ELSE s0,
                 IF Forwards(s0) THEN Broadcast(s0, Ready(TRUE)) ELSE <<>>,
                 IF s0.pause THEN <<SetPauseCall(FALSE)>> ELSE <<>>,
                 "read")
    ELSE Outcome(s0, <<>>, <<>>, "read")

\* VoyeursCommand::Ready(p), not standalone
ReadyBarrier(s, addr, p) ==
    LET s0 == [s EXCEPT !.peers[addr].ready = p] IN
    IF ~p
    THEN Outcome(IF ~s0.pause THEN PlayerSetPause(Flag(s0), TRUE) ELSE s0,
                 IF Forwards(s0) THEN BroadcastExcluding(s0, Ready(FALSE), addr) ELSE <<>>,
                 IF ~s0.pause THEN <<SetPauseCall(TRUE)>> ELSE <<>>,
                 "read")
    ELSE IF Unanimous(s0)
    THEN Outcome(IF s0.pause THEN PlayerSetPause(Flag(s0), FALSE) ELSE s0,
                 IF Forwards(s0) THEN Broadcast(s0, Ready(TRUE)) ELSE <<>>,
                 IF s0.pause THEN <<SetPauseCall(FALSE)>> ELSE <<>>,
                 "read")
    ELSE Outcome(s0, <<>>, <<>>, "read")

\* A hub that sends the Seek back to its sender too.
OnSeekEchoes(s, addr, t, evs) ==
    IF ~F64Eq(t, s.pos)
    THEN Outcome(PlayerSeek(Flag(s), t, evs),
                 IF Forwards(s) THEN Broadcast(s, Seek(t)) ELSE <<>>,
                 <<SeekCall(t)>>, "read")
    ELSE Outcome(s, <<>>, <<>>, "read")

\* VoyeursCommand::Seek(t)
OnSeek(s, addr, t, evs) ==
    IF ~F64Eq(t, s.pos)
    THEN Outcome(PlayerSeek(Flag(s), t, evs),
                 IF Forwards(s) THEN BroadcastExcluding(s, Seek(t), addr) ELSE <<>>,
                 <<SeekCall(t)>>, "read")
    ELSE Outcome(s, <<>>, <<>>, "read")

\* A hub that reads "pause" before it pauses its player.
OnNewConnectionReadsFirst(s, addr, username) ==
    IF ~ValidUsername(username) THEN Outcome(s, <<>>, <<>>, "rejected")
    ELSE LET s1 == PlayerSetPause(s, TRUE)
             s2 == [s1 EXCEPT !.peers[addr].username = username]
         IN Outcome(s2,
                    Send(s2, addr, Filename(PlayerFilename))
                    \o Send(s2, addr, Duration(PlayerDuration))
                    \o Send(s2, addr, Seek(s2.pos))
                    \o Send(s2, addr, Ready(~s.pause)),
                    <<PauseCall, ShowTextCall("connected")>>, "read")

\* A hub that sends Ready before Seek.
OnNewConnectionReadyBeforeSeek(s, addr, username) ==
    IF ~ValidUsername(username) THEN Outcome(s, <<>>, <<>>, "rejected")
    ELSE LET s1 == PlayerSetPause(s, TRUE)
             s2 == [s1 EXCEPT !.peers[addr].username = username]
         IN Outcome(s2,
                    Send(s2, addr, Filename(PlayerFilename))
                    \o Send(s2, addr, Duration(PlayerDuration))
                    \o Send(s2, addr, Ready(~s2.pause))
                    \o Send(s2, addr, Seek(s2.pos)),
                    <<PauseCall, ShowTextCall("connected")>>, "read")

\* VoyeursCommand::NewConnection(username)
OnNewConnection(s, addr, username) ==
    IF ~ValidUsername(username) THEN Outcome(s, <<>>, <<>>, "rejected")
    ELSE LET s1 == PlayerSetPause(s, TRUE)
             s2 == [s1 EXCEPT !.peers[addr].username = username]
         IN Outcome(s2,
                    Send(s2, addr, Filename(PlayerFilename))
                    \o Send(s2, addr, Duration(PlayerDuration))
                    \o Send(s2, addr, Seek(s2.pos))
                    \o Send(s2, addr, Ready(~s2.pause)),
                    <<PauseCall, ShowTextCall("connected")>>, "read")

\* VoyeursCommand::GetStreamName
OnGetStreamName(s, addr) ==
    IF s.settings.is_serving
    THEN Outcome(s, Send(s, addr, StreamName(IF IsUrl(s.path) THEN s.path ELSE <<>>)),
                 <<>>, "read")
    ELSE Outcome(s, <<>>, <<>>, "read")

\* VoyeursCommand::StreamName(stream), up to the wait for Event::FileLoaded,
\* which the task makes with the guard `s` of the room's lock still alive
OnStreamName(s, addr, stream) ==
    IF s.settings.accept_source
    THEN Outcome([s EXCEPT !.loading = stream], <<>>, <<LoadFileCall(stream)>>, "wait")
    ELSE Outcome(s, <<>>, <<>>, "read")

\* VoyeursCommand::Filename(f) and VoyeursCommand::Duration(t)
OnFilename(s, f) ==
    Outcome(s, <<>>, IF f # PlayerFilename THEN <<ShowTextCall("filename")>> ELSE <<>>, "read")
OnDuration(s, t) ==
    Outcome(s, <<>>, IF ~F64Eq(t, PlayerDuration) THEN <<ShowTextCall("duration")>> ELSE <<>>,
            "read")

\* handle_connection: match packet.command
Dispatch(s, addr, cmd, evs) ==
    CASE cmd.k = "Ready" ->
           IF s.settings.standalone THEN ReadyStandalone(s, addr, cmd.p)
           ELSE ReadyBarrier(s, addr, cmd.p)
      [] cmd.k = "Seek" -> OnSeek(s, addr, cmd.t, evs)
      [] cmd.k = "NewConnection" -> OnNewConnection(s, addr, cmd.s)
      [] cmd.k = "GetStreamName" -> OnGetStreamName(s, addr)
      [] cmd.k = "StreamName" -> OnStreamName(s, addr, cmd.s)
      [] cmd.k = "Filename" -> OnFilename(s, cmd.s)
      [] cmd.k = "Duration" -> OnDuration(s, cmd.t)

\* handle_connection: Err(_) of read_packet
\* An error branch that empties the room.
OnReadErrorClearsRoom(s, addr) ==
    Outcome([s EXCEPT !.peers = NoPeers], <<>>, <<ShowTextCall("disconnected")>>,
            "closed")

OnReadError(s, addr) ==
    Outcome([s EXCEPT !.peers = Remove(@, addr)], <<>>, <<ShowTextCall("disconnected")>>,
            "closed")

\* handle_connection: one turn of the loop on the result of read_packet. A
\* panic inside read_packet unwinds the task before it takes the lock.
OnPacket(s, addr, res, evs) ==
    CASE res.tag = "Ok" -> Dispatch(s, addr, res.cmd, evs)
      [] res.tag = "Err" -> OnReadError(s, addr)
      [] res.tag = "Panic" -> Outcome(s, <<>>, <<>>, "panicked")

\* A bridge that rebroadcasts what it should swallow.
NeverSwallows(s) == FALSE

\* if s.ignore_next
Swallows(s) == s.ignore_next

\* handle_mpv_event: Property::Pause(p)
OnPauseEventReportsPause(s, p) ==
    IF s.settings.standalone THEN Outcome(s, Broadcast(s, Ready(~p)), <<>>, "bridge")
    ELSE LET s1 == [s EXCEPT !.is_ready = ~p] IN
      IF ~s1.is_ready THEN Outcome(s1, Broadcast(s1, Ready(FALSE)), <<>>, "bridge")
      ELSE IF \E b \in DOMAIN s1.peers : ~s1.peers[b].ready
        THEN IF s1.player = "alive"
          THEN Outcome(PlayerSetPause(Flag(s1), TRUE), Broadcast(s1, Ready(FALSE)),
                       <<ShowTextCall("notready"), PauseCall>>, "bridge")
          ELSE Outcome(s1, <<>>, <<ShowTextCall("notready")>>, "panicked")
        ELSE Outcome(s1, Broadcast(s1, Ready(TRUE)), <<>>, "bridge")

OnPauseEvent(s, p) ==
    IF s.settings.standalone THEN Outcome(s, Broadcast(s, Ready(~p)), <<>>, "bridge")
    ELSE LET s1 == [s EXCEPT !.is_ready = ~p] IN
      IF ~s1.is_ready THEN Outcome(s1, Broadcast(s1, Ready(FALSE)), <<>>, "bridge")
      ELSE IF \E b \in DOMAIN s1.peers : ~s1.peers[b].ready
        THEN IF s1.player = "alive"
          THEN Outcome(PlayerSetPause(Flag(s1), TRUE), Broadcast(s1, Ready(TRUE)),
                       <<ShowTextCall("notready"), PauseCall>>, "bridge")
          \* run_command_raw("show-text", ...).unwrap() on a player that is gone
          ELSE Outcome(s1, <<>>, <<ShowTextCall("notready")>>, "panicked")
        ELSE Outcome(s1, Broadcast(s1, Ready(TRUE)), <<>>, "bridge")

\* handle_mpv_event: one turn of the loop on the event event_listen returned
OnEvent(s, ev) ==
    IF Swallows(s) THEN Outcome([s EXCEPT !.ignore_next = FALSE], <<>>, <<>>, "swallowed")
    ELSE CASE ev.e \in {"Shutdown", "EndFile"} ->
                Outcome([s EXCEPT !.exit = "exit(0)"], <<>>, <<>>, "exit")
           [] ev.e = "Pause" -> OnPauseEvent(s, ev.v)
           [] ev.e = "Seeking" /\ ~ev.v ->
                Outcome(s, Broadcast(s, Seek(PlaybackTime(s))), <<>>, "bridge")
           [] OTHER -> Outcome(s, <<>>, <<>>, "bridge")

(***************************************************************************)
(* The actions.                                                            *)
(***************************************************************************)

Step(op, p, a, res, ev, out, s) ==
    [op |-> op, p |-> p, a |-> a, res |-> res, ev |-> ev,
     sent |-> out.sent, calls |-> out.calls, pc |-> out.pc,
     pause |-> s.pause, ignore_next |-> s.ignore_next]

NoStep == [op |-> "init"]
Quiet(s) == Outcome(s, <<>>, <<>>, "none")

\* handle_connection, lines 20-31: register the peer. A hub's session then
\* reads; the session of a process that connected out sends its handshake.
SessionOpen(p, a) ==
    LET s == proc[p] IN
    /\ Running(s)
    /\ s.sess[a] = "none"
    /\ s.lock = "free"
    /\ LET pc == IF s.settings.is_serving THEN "read" ELSE "opened"
           s1 == [s EXCEPT !.peers = Insert(@, a, NewPeer), !.sess[a] = pc]
       IN /\ proc' = [proc EXCEPT ![p] = s1]
          /\ last' = Step("open", p, a, None, None, Outcome(s1, <<>>, <<>>, pc), s)
    /\ UNCHANGED <<chan, nuser, nenv>>

\* A handshake that asks to join whatever the settings.
SessionHandshakeJoins(p, a) ==
    LET s == proc[p]
        sent == Send(s, a, NewConnection(s.settings.username))
    IN
    /\ Running(s)
    /\ s.sess[a] = "opened"
    /\ s.lock = "free"
    /\ proc' = [proc EXCEPT ![p].sess[a] = "read"]
    /\ chan' = Deliver(chan, p, sent)
    /\ last' = Step("handshake", p, a, None, None, Outcome(s, sent, <<>>, "read"), s)
    /\ UNCHANGED <<nuser, nenv>>

\* handle_connection, lines 33-50
SessionHandshake(p, a) ==
    LET s == proc[p]
        sent == IF s.settings.accept_source THEN Send(s, a, GetStreamName)
                ELSE Send(s, a, NewConnection(s.settings.username))
    IN
    /\ Running(s)
    /\ s.sess[a] = "opened"
    /\ s.lock = "free"
    /\ proc' = [proc EXCEPT ![p].sess[a] = "read"]
    /\ chan' = Deliver(chan, p, sent)
    /\ last' = Step("handshake", p, a, None, None, Outcome(s, sent, <<>>, "read"), s)
    /\ UNCHANGED <<nuser, nenv>>

\* A turn that keeps the room's lock while it goes back to read_packet.
SessionTurnKeepsLock(p, a, res, evs, ch) ==
    LET s == proc[p]
        out == OnPacket(s, a, res, evs)
    IN
    /\ proc' = [proc EXCEPT ![p] =
                  [out.s EXCEPT !.sess[a] = out.pc,
                                !.lock = IF out.pc \in {"wait", "read"} THEN a ELSE "free"]]
    /\ chan' = Deliver(ch, p, out.sent)
    /\ last' = Step("recv", p, a, res, None, out, s)

\* handle_connection, lines 52-206: one turn of the loop
SessionTurn(p, a, res, evs, ch) ==
    LET s == proc[p]
        out == OnPacket(s, a, res, evs)
    IN
    /\ proc' = [proc EXCEPT ![p] =
                  [out.s EXCEPT !.sess[a] = out.pc,
                                !.lock = IF out.pc = "wait" THEN a ELSE "free"]]
    /\ chan' = Deliver(ch, p, out.sent)
    /\ last' = Step("recv", p, a, res, None, out, s)

\* A session reads the next frame of its link.
SessionRecv(p, a) ==
    /\ Alive(proc[p])
    /\ proc[p].sess[a] = "read"
    /\ proc[p].lock = "free"
    /\ <<a, p>> \in DOMAIN chan
    /\ chan[<<a, p>>] # <<>>
    /\ \E evs \in IF Head(chan[<<a, p>>]).code = 2 THEN SeekEventSeqs ELSE {<<>>} :
         LET f == Head(chan[<<a, p>>]) IN
         SessionTurn(p, a, from_bytes(f.code, f.args), evs,
                     [chan EXCEPT ![<<a, p>>] = Tail(@)])
    /\ UNCHANGED <<nuser, nenv>>

\* The player reports Event::FileLoaded to the session waiting for it at
\* line 167, which then sends NewConnection and releases the lock.
FileLoaded(p, a) ==
    LET s == proc[p]
        sent == Send(s, a, NewConnection(s.settings.username))
    IN
    /\ Alive(s)
    /\ s.sess[a] = "wait"
    /\ s.loading # <<>>
    /\ proc' = [proc EXCEPT ![p] =
                  [s EXCEPT !.sess[a] = "read", !.lock = "free",
                            !.path = s.loading, !.loading = <<>>, !.pos = F64Zero,
                            !.events = Append(@, OtherEv)]]
    /\ chan' = Deliver(chan, p, sent)
    /\ last' = Step("loaded", p, a, None, None, Outcome(s, sent, <<>>, "read"), s)
    /\ UNCHANGED <<nuser, nenv>>

\* event_listen returns the player's oldest event. user_ev follows the
\* event of the user's last unpause through the queue: its place in it, -1
\* in the turn that takes it, 0 otherwise.
Taken(s) ==
    [s EXCEPT !.events = Tail(@),
              !.user_ev = IF @ = 1 THEN -1 ELSE IF @ > 1 THEN @ - 1 ELSE 0]

\* handle_mpv_event, lines 17-74: one turn of the loop
BridgeStep(p) ==
    LET s == proc[p] IN
    /\ Running(s) /\ s.bridge = "run"
    /\ s.events # <<>>
    /\ s.lock = "free"
    /\ LET ev == Head(s.events)
           out == OnEvent(Taken(s), ev)
       IN /\ proc' = [proc EXCEPT ![p] =
                        [out.s EXCEPT !.bridge = IF out.pc = "panicked" THEN "panicked"
                                                 ELSE @]]
          /\ chan' = Deliver(chan, p, out.sent)
          /\ last' = Step("bridge", p, p, None, ev, out, s)
    /\ UNCHANGED <<nuser, nenv>>

\* The user's last act on the player of the process: "none", "pause",
\* "unpause" or "seek"; the event of an unpause is the last of the queue.
Acted(s, act) ==
    [s EXCEPT !.user = act,
              !.user_ev = IF act = "unpause" THEN Len(s.events) ELSE @]

\* The user of p's player toggles pause.
UserPause(p) ==
    LET s == proc[p] IN
    /\ Alive(s)
    /\ nuser < MaxUser
    /\ Len(s.events) < MaxPending
    /\ nuser' = nuser + 1
    /\ proc' = [proc EXCEPT ![p] = Acted(PlayerSetPause(s, ~s.pause),
                                         IF s.pause THEN "unpause" ELSE "pause")]
    /\ last' = Step("user", p, p, None, None, Quiet(s), s)
    /\ UNCHANGED <<chan, nenv>>

\* The player of p reaches the end of its file, or is closed.
PlayerEnd(p) ==
    LET s == proc[p] IN
    /\ Alive(s)
    /\ nuser < MaxUser
    /\ Len(s.events) < MaxPending
    /\ nuser' = nuser + 1
    /\ \E ev \in {EndFileEv, ShutdownEv} :
         proc' = [proc EXCEPT ![p] =
                    [s EXCEPT !.events = Append(@, ev),
                              !.player = IF ev = ShutdownEv THEN "gone" ELSE @]]
    /\ last' = Step("user", p, p, None, None, Quiet(s), s)
    /\ UNCHANGED <<chan, nenv>>

\* The user of p's player seeks.
UserSeek(p) ==
    LET s == proc[p] IN
    /\ Alive(s)
    /\ nuser < MaxUser
    /\ Len(s.events) < MaxPending
    /\ nuser' = nuser + 1
    /\ \E t \in PosSamples \ {s.pos}, evs \in SeekEventSeqs :
         proc' = [proc EXCEPT ![p] = Acted(PlayerSeek(s, t, evs), "seek")]
    /\ last' = Step("user", p, p, None, None, Quiet(s), s)
    /\ UNCHANGED <<chan, nenv>>

(***************************************************************************)
(* Spec: a hub H and a client X, which plays its own file or accepts the   *)
(* hub's source; neither is standalone.                                    *)
(***************************************************************************)

Init ==
    /\ \E accept_source \in BOOLEAN :
         proc = [p \in Procs |->
                   IF p = "H" THEN InitProc(Settings(TRUE, FALSE, FALSE), UrlPath)
                   ELSE InitProc(Settings(FALSE, accept_source, FALSE),
                                 IF accept_source THEN <<>> ELSE LocalPath)]
    /\ chan = [l \in SysLinks |-> <<>>]
    /\ nuser = 0
    /\ nenv = 0
    /\ last = NoStep
    /\ codec_in = None /\ codec_wire = None /\ codec_out = None /\ codec_pc = "off"

Next ==
    \/ \E l \in SysLinks : SessionOpen(l[1], l[2]) /\ UNCHANGED codecvars
    \/ \E l \in SysLinks : SessionHandshake(l[1], l[2]) /\ UNCHANGED codecvars
    \/ \E l \in SysLinks : SessionRecv(l[1], l[2]) /\ UNCHANGED codecvars
    \/ \E l \in SysLinks : FileLoaded(l[1], l[2]) /\ UNCHANGED codecvars
    \/ \E p \in Procs : BridgeStep(p) /\ UNCHANGED codecvars
    \/ \E p \in Procs : UserPause(p) /\ UNCHANGED codecvars
    \/ \E p \in Procs : UserSeek(p) /\ UNCHANGED codecvars
    \/ \E p \in Procs : PlayerEnd(p) /\ UNCHANGED codecvars

Spec == Init /\ [][Next]_vars

(***************************************************************************)
(* SpecPlay: the hub and the client of Spec with playback time passing,    *)
(* and a user who acts only when the system is at rest: no frame in        *)
(* flight, no player event pending, every session in its read loop.  The   *)
(* sessions and the bridges are tokio tasks, which run whenever they can:  *)
(* weak fairness on each of them.                                          *)
(***************************************************************************)

MaxActs == 3

Settled ==
    /\ \A l \in SysLinks : chan[l] = <<>>
    /\ \A p \in Procs : proc[p].events = <<>>

AtRest ==
    /\ Settled
    /\ \A l \in SysLinks : proc[l[1]].sess[l[2]] = "read"
    /\ \A p \in Procs : proc[p].lock = "free"

\* Positions are kept in a finite set: of time passing, the model keeps that
\* the position read after it differs from the position read before it.
Advance(t) == IF t = F64Zero THEN TwelveAndHalf ELSE F64Zero

\* The player of p plays on: "playback-time" (client_message_handler.rs line
\* 110, mpv_event_handler.rs line 58) moves while the player is not paused.
Tick(p) ==
    LET s == proc[p] IN
    /\ Alive(s)
    /\ ~s.pause
    /\ proc' = [proc EXCEPT ![p] = [s EXCEPT !.pos = Advance(s.pos)]]
    /\ last' = Step("tick", p, p, None, None, Quiet(s), s)
    /\ UNCHANGED <<chan, nuser, nenv>>

\* The user of p's player toggles pause, the system being at rest.
RestPause(p) ==
    LET s == proc[p] IN
    /\ Alive(s)
    /\ AtRest
    /\ nuser < MaxActs
    /\ nuser' = nuser + 1
    /\ proc' = [proc EXCEPT ![p] = Acted(PlayerSetPause(s, ~s.pause),
                                         IF s.pause THEN "unpause" ELSE "pause")]
    /\ last' = Step("user", p, p, None, None, Quiet(s), s)
    /\ UNCHANGED <<chan, nenv>>

\* The user of p's player seeks, the system being at rest.
RestSeek(p) ==
    LET s == proc[p] IN
    /\ Alive(s)
    /\ AtRest
    /\ nuser < MaxActs
    /\ nuser' = nuser + 1
    /\ \E t \in PosSamples \ {s.pos}, evs \in SeekEventSeqs :
         proc' = [proc EXCEPT ![p] = Acted(PlayerSeek(s, t, evs), "seek")]
    /\ last' = Step("user", p, p, None, None, Quiet(s), s)
    /\ UNCHANGED <<chan, nenv>>

PlayNext ==
    \/ \E l \in SysLinks : SessionOpen(l[1], l[2]) /\ UNCHANGED codecvars
    \/ \E l \in SysLinks : SessionHandshake(l[1], l[2]) /\ UNCHANGED codecvars
    \/ \E l \in SysLinks : SessionRecv(l[1], l[2]) /\ UNCHANGED codecvars
    \/ \E l \in SysLinks : FileLoaded(l[1], l[2]) /\ UNCHANGED codecvars
    \/ \E p \in Procs : BridgeStep(p) /\ UNCHANGED codecvars
    \/ \E p \in Procs : Tick(p) /\ UNCHANGED codecvars
    \/ \E p \in Procs : RestPause(p) /\ UNCHANGED codecvars
    \/ \E p \in Procs : RestSeek(p) /\ UNCHANGED codecvars

TasksRun ==
    /\ \A l \in SysLinks :
         /\ WF_vars(SessionOpen(l[1], l[2]) /\ UNCHANGED codecvars)
         /\ WF_vars(SessionHandshake(l[1], l[2]) /\ UNCHANGED codecvars)
         /\ WF_vars(SessionRecv(l[1], l[2]) /\ UNCHANGED codecvars)
         /\ WF_vars(FileLoaded(l[1], l[2]) /\ UNCHANGED codecvars)
    /\ \A p \in Procs : WF_vars(BridgeStep(p) /\ UNCHANGED codecvars)

SpecPlay == Init /\ [][PlayNext]_vars /\ TasksRun

(***************************************************************************)
(* SpecBarrier: the hub and the client of Spec with users who only         *)
(* unpause, at any moment, and the same fairness as SpecPlay.              *)
(***************************************************************************)

\* The user of p's player unpauses it.
UserUnpause(p) ==
    LET s == proc[p] IN
    /\ Alive(s)
    /\ s.pause
    /\ nuser < MaxActs
    /\ Len(s.events) < MaxPending
    /\ nuser' = nuser + 1
    /\ proc' = [proc EXCEPT ![p] = Acted(PlayerSetPause(s, FALSE), "unpause")]
    /\ last' = Step("user", p, p, None, None, Quiet(s), s)
    /\ UNCHANGED <<chan, nenv>>

BarrierNext ==
    \/ \E l \in SysLinks : SessionOpen(l[1], l[2]) /\ UNCHANGED codecvars
    \/ \E l \in SysLinks : SessionHandshake(l[1], l[2]) /\ UNCHANGED codecvars
    \/ \E l \in SysLinks : SessionRecv(l[1], l[2]) /\ UNCHANGED codecvars
    \/ \E l \in SysLinks : FileLoaded(l[1], l[2]) /\ UNCHANGED codecvars
    \/ \E p \in Procs : BridgeStep(p) /\ UNCHANGED codecvars
    \/ \E p \in Procs : UserUnpause(p) /\ UNCHANGED codecvars

SpecBarrier == Init /\ [][BarrierNext]_vars /\ TasksRun

(***************************************************************************)
(* SpecRoom: one process, as a hub with three peers or as a client of one  *)
(* hub, whose peers are simulated: they send any frame and may disconnect. *)
(***************************************************************************)

\* What a simulated peer sends: to a hub what a client may send, to a client
\* what a hub may send, and to both three malformed frames: an unknown command
\* code, a Ready without its flag byte, and a NewConnection of version 2.
BadFrames == {Wire(7, <<>>), Wire(1, <<>>), Wire(0, <<0, 2>>)}
ToHub ==
    {Ready(TRUE), Ready(FALSE), Seek(TwelveAndHalf), NewConnection(Bob2),
     NewConnection(BobBang), GetStreamName}
ToClient ==
    {Ready(TRUE), Ready(FALSE), Seek(TwelveAndHalf), StreamName(<<>>), StreamName(UrlPath),
     Filename(PlayerFilename), Duration(F64One)}
EnvFrames(s) ==
    {to_bytes(c) : c \in IF s.settings.is_serving THEN ToHub ELSE ToClient} \cup BadFrames

RoomInit ==
    /\ \E is_serving \in BOOLEAN, accept_source \in BOOLEAN, standalone \in BOOLEAN,
          path \in {LocalPath, UrlPath} :
         /\ is_serving => ~accept_source /\ ~standalone /\ path = UrlPath
         /\ ~is_serving => path = LocalPath
         /\ proc = [p \in Procs |->
                      IF p = "H"
                      THEN InitProc(Settings(is_serving, accept_source, standalone), path)
                      ELSE InitProc(Settings(FALSE, FALSE, FALSE), LocalPath)]
    /\ chan = [l \in {} |-> <<>>]
    /\ nuser = 0
    /\ nenv = 0
    /\ last = NoStep
    /\ codec_in = None /\ codec_wire = None /\ codec_out = None /\ codec_pc = "off"

\* The addresses the process has a connection with.
RoomAddrs == IF proc["H"].settings.is_serving THEN RoomPeers ELSE {"A"}

\* The hub accepts its peers in the order A, B, C.
RoomOpen(a) ==
    /\ a = "B" => proc["H"].sess["A"] # "none"
    /\ a = "C" => proc["H"].sess["B"] # "none"
    /\ SessionOpen("H", a)

\* A simulated peer's frame arrives and the session reads it.
RoomRecv(a) ==
    /\ Alive(proc["H"])
    /\ proc["H"].sess[a] = "read"
    /\ proc["H"].lock = "free"
    /\ nenv < MaxEnv
    /\ Len(proc["H"].events) < MaxPending
    /\ nenv' = nenv + 1
    /\ \E f \in EnvFrames(proc["H"]) :
         \E evs \in IF f.code = 2 THEN SeekEventSeqs ELSE {<<>>} :
           SessionTurn("H", a, from_bytes(f.code, f.args), evs, chan)
    /\ UNCHANGED nuser

\* A simulated peer closes its socket: read_packet returns Err(TooShort).
RoomEof(a) ==
    /\ Alive(proc["H"])
    /\ proc["H"].sess[a] = "read"
    /\ proc["H"].lock = "free"
    /\ nenv < MaxEnv
    /\ nenv' = nenv + 1
    /\ SessionTurn("H", a, read_packet(<<>>, TRUE), <<>>, chan)
    /\ UNCHANGED nuser

RoomNext ==
    \/ \E a \in RoomAddrs : RoomOpen(a) /\ UNCHANGED codecvars
    \/ \E a \in RoomAddrs : SessionHandshake("H", a) /\ UNCHANGED codecvars
    \/ \E a \in RoomAddrs : RoomRecv(a) /\ UNCHANGED codecvars
    \/ \E a \in RoomAddrs : RoomEof(a) /\ UNCHANGED codecvars
    \/ \E a \in RoomAddrs : FileLoaded("H", a) /\ UNCHANGED codecvars
    \/ BridgeStep("H") /\ UNCHANGED codecvars
    \/ UserPause("H") /\ UNCHANGED codecvars
    \/ UserSeek("H") /\ UNCHANGED codecvars
    \/ PlayerEnd("H") /\ UNCHANGED codecvars

SpecRoom == RoomInit /\ [][RoomNext]_vars

(***************************************************************************)
(* Claims about the codec (checked under SpecCodec).                       *)
(***************************************************************************)

HasNaN(c) == c.k \in {"Seek", "Duration"} /\ IsNaN(c.t)

RoundTripped == codec_pc = "decoded" /\ codec_in.kind = "cmd"

\* C9 as stated: decoding what to_bytes produced for any command c yields a
\* command equal (PartialEq) to c.
C9_RoundTripEveryCommand ==
    RoundTripped => codec_out.tag = "Ok" /\ CmdEq(codec_out.cmd, codec_in.cmd)

\* C9 amended: decoding what to_bytes produced for a command c whose f64
\* argument (if any) is not NaN yields a command equal to c; for a NaN
\* argument the decoded command carries the same bits.
C9_RoundTrip ==
    RoundTripped =>
        /\ codec_out.tag = "Ok"
        /\ ~HasNaN(codec_in.cmd) => CmdEq(codec_out.cmd, codec_in.cmd)
        /\ codec_out.cmd = codec_in.cmd

C9_Witness ==
    /\ RoundTripped
    /\ codec_in.cmd = Seek(TwelveAndHalf)
    /\ codec_wire = Wire(2, <<64, 41, 0, 0, 0, 0, 0, 0>>)
    /\ codec_out = Ok(Seek(TwelveAndHalf))

\* The argument bytes from_bytes is handed are fewer than the fixed-size
\* field of the command code.
FixedFieldShort(code, args) ==
    \/ code = 0 /\ Len(args) < 2
    \/ code = 1 /\ Len(args) < 1
    \/ code \in {2, 4} /\ Len(args) < 8

Truncated ==
    \/ codec_in.kind = "raw" /\ FixedFieldShort(codec_in.code, codec_in.args)
    \/ /\ codec_in.kind = "stream"
       /\ \/ Len(codec_in.payload) < codec_in.declared
          \/ FixedFieldShort(codec_in.code, Take(codec_in.payload, codec_in.declared))

\* C10: decoding a frame whose payload is shorter than its declared length or
\* than the fixed-size field of its command returns TooShort (and so neither
\* panics nor returns anything else).
C10_TruncatedIsTooShort ==
    codec_pc = "decoded" /\ Truncated => codec_out = Err("TooShort")

(***************************************************************************)
(* Claims about the sessions and the bridge.                               *)
(***************************************************************************)

\* The last step was a session's dispatch of the command k.
Dispatched(k) == last.op = "recv" /\ last.res.tag = "Ok" /\ last.res.cmd.k = k
Cmds(sent) == [i \in 1..Len(sent) |-> sent[i].cmd]
Dests(sent) == {sent[i].to : i \in 1..Len(sent)}
InSeq(x, seq) == \E i \in 1..Len(seq) : seq[i] = x
AllPeersReady(s) == \A b \in DOMAIN s.peers : s.peers[b].ready

\* C1: a session that dispatches Ready{true}, not standalone, leaves the
\* player's pause alone (no set_property("pause", false)) while some tracked
\* peer is not ready; when every tracked peer and the global bit are ready
\* and the player is paused, it unpauses it with exactly one call; a player
\* that is not paused gets no call, so that it is unpaused once.
C1_ReadinessBarrier ==
    (Dispatched("Ready") /\ last.res.cmd.p /\ ~proc[last.p].settings.standalone) =>
      LET s == proc[last.p] IN
      /\ ~AllPeersReady(s) =>
            s.pause = last.pause /\ ~InSeq(SetPauseCall(FALSE), last.calls)
      /\ (AllPeersReady(s) /\ s.is_ready /\ last.pause) =>
            /\ ~s.pause
            /\ last.calls = <<SetPauseCall(FALSE)>>
            /\ s.events # <<>> /\ s.events[Len(s.events)] = PauseEv(FALSE)
      /\ ~last.pause => last.calls = <<>> /\ ~s.pause

\* Three peers, the last of them has just reported ready, and the paused
\* player was unpaused.
C1_Witness ==
    /\ Dispatched("Ready") /\ last.res.cmd.p
    /\ DOMAIN proc["H"].peers = RoomPeers
    /\ AllPeersReady(proc["H"]) /\ proc["H"].is_ready
    /\ last.pause /\ ~proc["H"].pause
    /\ last.calls = <<SetPauseCall(FALSE)>>

\* Both players are connected and joined, and nothing is in flight: every
\* frame was dispatched, every player event consumed, no session waits for
\* the player.
Quiescent ==
    /\ \A l \in DOMAIN chan : chan[l] = <<>>
    /\ \A p \in Procs : proc[p].events = <<>>
    /\ proc["H"].sess["X"] = "read" /\ proc["X"].sess["H"] = "read"
    /\ "X" \in DOMAIN proc["H"].peers
    /\ proc["H"].peers["X"].username = DefaultUsername

\* C2: in a quiescent state no player is unpaused while another is paused.
C2_SystemBarrier == Quiescent => proc["H"].pause = proc["X"].pause

BridgeStepped == last.op = "bridge"

\* The last step applied an inbound Seek or Ready to the player.
Applied ==
    /\ last.op = "recv" /\ last.res.tag = "Ok"
    /\ last.res.cmd.k \in {"Seek", "Ready"}
    /\ \E i \in 1..Len(last.calls) : last.calls[i].c \in {"seek", "set_pause"}


\* The bridge has just paused the player again, peers not being ready.
Repaused == BridgeStepped /\ InSeq(PauseCall, last.calls)

\* C3: applying an inbound Seek or Ready to the player sets the flag, and
\* only the bridge clears it; the bridge's turn that finds the flag set
\* clears it and broadcasts nothing (and calls nothing on the player); the
\* flag then stays clear until the next apply (or the bridge's own pause),
\* and the bridge's turn that finds it clear, as the turn after a swallow
\* does, handles the event: a pause change or a finished seek is broadcast to
\* every peer.
C3_EchoSuppression ==
    /\ Applied => proc[last.p].ignore_next
    /\ (last.op # "init" /\ last.ignore_next /\ ~proc[last.p].ignore_next) => BridgeStepped
    /\ (last.op # "init" /\ ~last.ignore_next /\ proc[last.p].ignore_next) =>
          Applied \/ Repaused
    /\ (BridgeStepped /\ last.ignore_next) =>
          /\ ~proc[last.p].ignore_next
          /\ last.sent = <<>> /\ last.calls = <<>>
          /\ last.pc = "swallowed"
    /\ (BridgeStepped /\ ~last.ignore_next) =>
          /\ last.pc # "swallowed"
          /\ (proc[last.p].player = "alive" /\ last.ev.e \in {"Pause", "Seeking"}) =>
                last.pc = "bridge"
          /\ (last.pc = "bridge"
                /\ (last.ev.e = "Pause" \/ (last.ev.e = "Seeking" /\ ~last.ev.v))) =>
                /\ Dests(last.sent) = DOMAIN proc[last.p].peers
                /\ \A i \in 1..Len(last.sent) :
                     last.sent[i].cmd.k = (IF last.ev.e = "Pause" THEN "Ready" ELSE "Seek")

\* The bridge has just swallowed the "seeking" change of an applied Seek.
C3_Witness ==
    /\ BridgeStepped /\ last.ignore_next /\ last.pc = "swallowed"
    /\ last.ev.e = "Seeking" /\ nuser = 0
    /\ proc[last.p].pos = TwelveAndHalf
    /\ ~proc[last.p].ignore_next
    /\ proc[last.p].peers # NoPeers

\* C4: a hub that applies a Seek{t} received from A sends Seek{t} to every
\* other peer and not to A; a process that is no hub sends nothing on a
\* received Seek.
C4_HubFanOut ==
    Dispatched("Seek") =>
      LET s == proc[last.p] IN
      /\ (s.settings.is_serving /\ last.calls # <<>>) =>
            /\ Dests(last.sent) = DOMAIN s.peers \ {last.a}
            /\ Len(last.sent) = Cardinality(DOMAIN s.peers \ {last.a})
            /\ \A i \in 1..Len(last.sent) : last.sent[i].cmd = last.res.cmd
      /\ ~s.settings.is_serving => last.sent = <<>>

C4_Witness ==
    /\ Dispatched("Seek") /\ last.a = "A" /\ last.calls # <<>>
    /\ proc["H"].settings.is_serving
    /\ DOMAIN proc["H"].peers = {"A", "B", "C"}
    /\ Dests(last.sent) = {"B", "C"}
    /\ last.res.cmd = Seek(TwelveAndHalf)

\* The username has a byte that is no ASCII letter or digit.
HasSymbol(u) ==
    \E i \in 1..Len(u) : u[i] \notin ((48..57) \cup (65..90) \cup (97..122))

JoinReplies(s) ==
    <<Filename(PlayerFilename), Duration(PlayerDuration), Seek(s.pos), Ready(~s.pause)>>

\* C5: a NewConnection with an alphanumeric username leaves the session
\* reading and sends the four join replies to the sender; one whose username
\* has any other character ends the session and sends nothing.
C5_UsernameValidation ==
    Dispatched("NewConnection") =>
      LET s == proc[last.p] IN
      IF HasSymbol(last.res.cmd.s)
      THEN s.sess[last.a] # "read" /\ last.sent = <<>> /\ last.calls = <<>>
      ELSE /\ s.sess[last.a] = "read"
           /\ Dests(last.sent) = {last.a}
           /\ Cmds(last.sent) = JoinReplies(s)
           /\ s.peers[last.a].username = last.res.cmd.s

C5_Witness ==
    /\ Dispatched("NewConnection") /\ last.res.cmd.s = BobBang
    /\ proc[last.p].sess[last.a] = "rejected"
    /\ last.sent = <<>>

\* C6 as stated: a hub playing at 12.5 that dispatches NewConnection{"user"}
\* replies Filename, Duration, Seek(12.5), Ready(true), in that order.
C6_JoinRepliesReadyTrue ==
    (Dispatched("NewConnection") /\ last.p = "H" /\ last.res.cmd.s = DefaultUsername
        /\ ~last.pause /\ proc["H"].pos = TwelveAndHalf) =>
      Cmds(last.sent) = <<Filename(PlayerFilename), Duration(PlayerDuration),
                          Seek(TwelveAndHalf), Ready(TRUE)>>

\* C6 amended: the hub pauses its player and replies Filename, Duration,
\* Seek(its position), Ready(false), in that order; the client that
\* dispatches a Seek{t} has its player at t, and the client that dispatches
\* Ready{false} has its player paused.
C6_Join ==
    /\ (Dispatched("NewConnection") /\ last.p = "H"
          /\ last.res.cmd.s = DefaultUsername) =>
          /\ proc["H"].pause
          /\ Cmds(last.sent) = <<Filename(PlayerFilename), Duration(PlayerDuration),
                                 Seek(proc["H"].pos), Ready(FALSE)>>
          /\ Dests(last.sent) = {"X"}
    /\ (Dispatched("Seek") /\ last.p = "X") => F64Eq(proc["X"].pos, last.res.cmd.t)
    /\ (Dispatched("Ready") /\ last.p = "X" /\ ~last.res.cmd.p) => proc["X"].pause

\* The client has dispatched the last of the hub's replies, the hub having
\* been playing at 12.5: it is at 12.5, paused.
C6_Witness ==
    /\ Dispatched("Ready") /\ last.p = "X" /\ ~last.res.cmd.p
    /\ ~proc["X"].settings.accept_source
    /\ proc["H"].peers["X"].username = DefaultUsername
    /\ chan[<<"H", "X">>] = <<>>
    /\ proc["H"].pos = TwelveAndHalf /\ proc["X"].pos = TwelveAndHalf
    /\ proc["X"].pause /\ proc["H"].pause

\* C7: a session whose loop has stopped, by a failed read or by rejecting a
\* NewConnection, has no entry in the room's peers.
C7_ClosedPeerRemoved ==
    \A p \in Procs : \A a \in Nodes :
      proc[p].sess[a] \in {"closed", "rejected"} => a \notin DOMAIN proc[p].peers

\* C8: a session that waits in read_packet or in event_listen does not hold
\* the room's lock.
C8_NoLockWhileWaiting ==
    \A p \in Procs : \A a \in Nodes :
      proc[p].sess[a] \in {"read", "wait"} => proc[p].lock # a

(***************************************************************************)
(* Further claims about the codec (SpecCodec).                             *)
(***************************************************************************)

\* The bytes begin with a 2-byte version field that is not version 1.
OtherVersion(args) == Len(args) >= 2 /\ (args[1] # 0 \/ args[2] # 1)

\* C11: from_bytes of a NewConnection payload whose version field is not the
\* protocol version returns UncompatibleProtocolVersion, whatever follows
\* the field; so does read_packet on a whole frame with such a payload.
C11_VersionMismatch ==
    /\ (codec_pc = "decoded" /\ codec_in.kind = "raw" /\ codec_in.code = 0
          /\ OtherVersion(codec_in.args)) =>
          codec_out = Err("UncompatibleProtocolVersion")
    /\ (codec_pc = "decoded" /\ codec_in.kind = "stream" /\ codec_in.code = 0
          /\ codec_in.declared = Len(codec_in.payload)
          /\ OtherVersion(codec_in.payload)) =>
          codec_out = Err("UncompatibleProtocolVersion")

\* Version 2 followed by a byte that is no UTF-8.
C11_Witness ==
    /\ codec_pc = "decoded" /\ codec_in.kind = "raw" /\ codec_in.code = 0
    /\ codec_in.args = <<0, 2, 255>>
    /\ codec_out = Err("UncompatibleProtocolVersion")

(***************************************************************************)
(* Further claims about the sessions and the bridge.                       *)
(***************************************************************************)

\* C12: when the bridge has taken a Shutdown or EndFile event from the
\* player, the process has exited with code 0.
C12_ExitOnPlayerEnd ==
    (BridgeStepped /\ last.ev.e \in {"Shutdown", "EndFile"}) =>
      proc[last.p].exit = "exit(0)"

\* C13, for the events of an applied Seek: as long as no user has acted on
\* the player, every "seeking" change the bridge takes was caused by an
\* inbound Seek, and the bridge broadcasts nothing for it.
C13_NoEchoOfAppliedSeek ==
    (BridgeStepped /\ nuser = 0 /\ last.ev.e = "Seeking") => last.sent = <<>>

\* C14: after a user action which no further user action follows, the system
\* reaches a state with no frame in flight and no player event pending.
C14_NoInfiniteReflection == [](nuser = MaxActs => <>Settled)

\* C15: in non-standalone mode, whenever the event bridge has consumed every
\* pending player event, is_ready is the negation of the player's pause.
C15_ReadyBitMirrorsPause ==
    \A p \in Procs :
      (~proc[p].settings.standalone /\ Alive(proc[p]) /\ proc[p].events = <<>>) =>
        (proc[p].is_ready = ~proc[p].pause)

\* The bridge has just handled the player's change to unpaused, not
\* standalone.
LocalUnpause ==
    /\ BridgeStepped /\ last.pc = "bridge"
    /\ last.ev = PauseEv(FALSE)
    /\ ~proc[last.p].settings.standalone

ReadyDispatched(p) ==
    /\ Dispatched("Ready") /\ last.res.cmd.p = p
    /\ ~proc[last.p].settings.standalone

\* C17: a session that dispatches Ready{false} from A, not standalone, stores
\* false as A's ready bit; a player that was not paused is paused by one call
\* with the flag set, a player that was paused gets no call and the flag is
\* left as it was; a hub sends Ready{false} to every tracked peer but A, and
\* a process that is no hub sends nothing.
C17_ReadyFalse ==
    ReadyDispatched(FALSE) =>
      LET s == proc[last.p] IN
      /\ last.a \in DOMAIN s.peers /\ ~s.peers[last.a].ready
      /\ s.pause
      /\ ~last.pause =>
            /\ last.calls = <<SetPauseCall(TRUE)>>
            /\ s.ignore_next
            /\ s.events # <<>> /\ s.events[Len(s.events)] = PauseEv(TRUE)
      /\ last.pause => last.calls = <<>> /\ s.ignore_next = last.ignore_next
      /\ s.settings.is_serving =>
            /\ Dests(last.sent) = DOMAIN s.peers \ {last.a}
            /\ Len(last.sent) = Cardinality(DOMAIN s.peers \ {last.a})
            /\ \A i \in 1..Len(last.sent) : last.sent[i].cmd = Ready(FALSE)
      /\ ~s.settings.is_serving => last.sent = <<>>

\* A hub of three peers whose player was paused with the flag clear: A reports
\* not ready, the flag stays clear and B and C are told.
C17_Witness ==
    /\ ReadyDispatched(FALSE) /\ last.a = "A"
    /\ proc["H"].settings.is_serving
    /\ DOMAIN proc["H"].peers = RoomPeers
    /\ last.pause /\ ~last.ignore_next /\ ~proc["H"].ignore_next
    /\ Dests(last.sent) = {"B", "C"}

InFlight(l, i) == from_bytes(chan[l][i].code, chan[l][i].args).cmd

\* The frames in flight on link l from the i-th on are the replies rs.
RepliesAt(l, i, rs) ==
    /\ i + Len(rs) - 1 <= Len(chan[l])
    /\ \A j \in 1..Len(rs) : CmdEq(InFlight(l, i + j - 1), rs[j])

DecodeFailed == last.op = "recv" /\ last.res.tag \in {"Err", "Panic"}

\* C20: a decode failure on the connection of A ends that connection and no
\* other: A's entry is removed from the room's peers and A's session has
\* left its loop by the Err branch; the flag and the player are left as they
\* were, the bridge runs, and no other session has stopped.
C20_DecodeFailureClosesOne ==
    DecodeFailed =>
      LET s == proc[last.p] IN
      /\ last.a \notin DOMAIN s.peers
      /\ s.sess[last.a] = "closed"
      /\ s.ignore_next = last.ignore_next /\ s.pause = last.pause
      /\ last.sent = <<>>
      /\ s.bridge = "run"

\* The session of p for a is in handle_connection, between its registration
\* and the end of its loop.
Active(p, a) == proc[p].sess[a] \in {"opened", "read", "wait"}

\* C21: the address of every active session is a key of the room's peers,
\* whatever the other sessions and the bridge have done; so the session that
\* has just dispatched a command, and goes on, found its peer, and every
\* frame it sent went to a tracked peer.
C21_ActivePeerTracked ==
    /\ \A p \in Procs : \A a \in Nodes : Active(p, a) => a \in DOMAIN proc[p].peers
    /\ (last.op = "recv" /\ last.res.tag = "Ok") =>
          /\ last.pc # "closed"
          /\ last.a \in DOMAIN proc[last.p].peers
          /\ Dests(last.sent) \subseteq DOMAIN proc[last.p].peers

\* A hub of three peers: the session of B has ended and B was removed; the
\* session of A then dispatches a Ready and finds A's entry.
C21_Witness ==
    /\ Dispatched("Ready") /\ last.a = "A"
    /\ proc["H"].sess["B"] = "closed"
    /\ Active("H", "A") /\ Active("H", "C")
    /\ DOMAIN proc["H"].peers = {"A", "C"}

\* C22: a session that accepts the hub's source and dispatches StreamName
\* with an empty url does nothing: no call on the player, no wait for
\* FileLoaded, no frame; with a url it makes the player load it and waits,
\* and when the player has loaded it sends NewConnection{username}.
C22_EmptyStreamNameNoOp ==
    /\ (Dispatched("StreamName") /\ proc[last.p].settings.accept_source) =>
          IF last.res.cmd.s = <<>>
          THEN last.calls = <<>> /\ last.pc = "read" /\ last.sent = <<>>
          ELSE /\ last.calls = <<LoadFileCall(last.res.cmd.s)>>
               /\ last.pc = "wait" /\ last.sent = <<>>
    /\ last.op = "loaded" =>
          Cmds(last.sent) = <<NewConnection(proc[last.p].settings.username)>>

\* The step that registers a session, and the step that sends its handshake.
Opened == last.op = "open"
Handshaken == last.op = "handshake"

HandshakeSteps ==
    /\ Opened =>
          /\ last.sent = <<>>
          /\ last.pc = (IF proc[last.p].settings.is_serving THEN "read" ELSE "opened")
    /\ Handshaken =>
          /\ ~proc[last.p].settings.is_serving
          /\ Dests(last.sent) = {last.a}
          /\ Cmds(last.sent) =
                <<IF proc[last.p].settings.accept_source THEN GetStreamName
                  ELSE NewConnection(proc[last.p].settings.username)>>

HandshakeFirst ==
    \A p \in Procs : \A a \in Nodes :
      (proc[p].sess[a] = "opened" /\ proc'[p].sess[a] # "opened") =>
        (last'.op = "handshake" /\ last'.p = p /\ last'.a = a)

\* C23: the session of a hub sends nothing when it is registered and goes
\* straight to reading, and never makes a handshake step; the session of a
\* process that connected out sends nothing when it is registered, reads
\* nothing before its handshake step, and that step sends its peer exactly
\* one frame: GetStreamName when it accepts the hub's source, and
\* NewConnection{username} otherwise.
C23_Handshake == []HandshakeSteps /\ [][HandshakeFirst]_vars

\* A client that accepts the hub's source has sent GetStreamName, its only
\* frame so far, and has read nothing.
C23_Witness ==
    /\ Handshaken /\ last.a = "A"
    /\ proc["H"].settings.accept_source
    /\ Cmds(last.sent) = <<GetStreamName>>
    /\ proc["H"].sess["A"] = "read"
    /\ nenv = 0

\* No session of the process waits for the player with the lock held.
NoneWaits == \A b \in Nodes : proc["H"].sess[b] # "wait"

\* C24: a session suspended in read_packet does not hold the room's lock:
\* the lock is held only by a session that waits for the player. So, beside
\* a session that reads and is sent nothing, every other session that is
\* sent a frame can take its turn, and the bridge can take the turn of a
\* pending event.
C24_SilentPeerBlocksOnlyItself ==
    /\ \A a \in Nodes : proc["H"].lock = a => proc["H"].sess[a] = "wait"
    /\ NoneWaits => proc["H"].lock = "free"
    /\ \A b \in RoomAddrs :
          (/\ \E a \in RoomAddrs \ {b} : proc["H"].sess[a] = "read"
           /\ proc["H"].sess[b] = "read"
           /\ NoneWaits /\ Alive(proc["H"])
           /\ nenv < MaxEnv /\ Len(proc["H"].events) < MaxPending) =>
             ENABLED RoomRecv(b)
    /\ (/\ \E a \in RoomAddrs : proc["H"].sess[a] = "read"
        /\ NoneWaits
        /\ Running(proc["H"]) /\ proc["H"].bridge = "run"
        /\ proc["H"].events # <<>>) =>
          ENABLED BridgeStep("H")

\* A hub of three peers: the entry of A is as it was registered and its
\* session reads; the session of B has just dispatched a Seek and sent it
\* on, A included.
C24_Witness ==
    /\ proc["H"].sess["A"] = "read" /\ proc["H"].peers["A"] = NewPeer
    /\ DOMAIN proc["H"].peers = RoomPeers
    /\ Dispatched("Seek") /\ last.a = "B"
    /\ Dests(last.sent) = {"A", "C"}
    /\ proc["H"].lock = "free"

\* C25: whatever the packet's timestamp, the latency sample is the receiver's
\* corrected time minus the timestamp, and computing it neither wraps nor
\* panics.
C25_LatencyExact ==
    codec_pc = "measured" => (codec_out.tag = "Ok" /\ codec_out.exact)

\* C26: the frame Packet::compile builds for any command is the 8 bytes of
\* the timestamp, the command's code, a big-endian arg_length of 2 bytes and
\* then exactly arg_length bytes, the command's arguments.
C26_WellFramed ==
    /\ codec_pc = "compiled" =>
          LET w == to_bytes(codec_in.cmd)
              n == Len(codec_wire)
          IN /\ n >= 11
             /\ Take(codec_wire, 8) = codec_in.timestamp
             /\ codec_wire[9] = w.code
             /\ U16FromBeBytes(SubSeq(codec_wire, 10, 11)) = n - 11
             /\ Drop(codec_wire, 11) = w.args
    /\ codec_pc = "framed" =>
          /\ codec_wire.timestamp = codec_in.timestamp
          /\ codec_wire.code = 3
          /\ codec_wire.nargs = codec_in.fill
          /\ codec_wire.arg_length = codec_wire.nargs

\* The last act of every user was to unpause the player.
AllUnpaused == \A p \in Procs : proc[p].user = "unpause"
AllPlaying == \A p \in Procs : ~proc[p].pause

\* C27: not standalone, once the user of the hub and the user of the client
\* have unpaused their players and no user acts any more, every player is
\* eventually unpaused and stays so: when every frame has been dispatched
\* and every player event consumed, so that no task has anything left to do,
\* every player is unpaused.
C27_BarrierLiveness == (AllUnpaused /\ AtRest) => AllPlaying

\* The bridge has just taken the event of the user's unpause, swallowed or
\* handled, not standalone.
UserUnpauseTaken ==
    /\ BridgeStepped /\ last.ev = PauseEv(FALSE)
    /\ proc[last.p].user_ev = -1
    /\ ~proc[last.p].settings.standalone

\* C28: a peer is registered not ready and stays so until a Ready{true} from
\* it is dispatched; while a tracked peer is not ready, not standalone, the
\* bridge's turn on the event of a user's unpause leaves the player paused
\* again, and the dispatch of a Ready{true} from another peer does not
\* unpause the player.
C28_NewPeerNotReady ==
    /\ \A p \in Procs : \A a \in DOMAIN proc[p].peers :
          (last.op = "open" /\ last.p = p /\ last.a = a) => ~proc[p].peers[a].ready
    /\ (UserUnpauseTaken /\ Running(proc[last.p]) /\ ~AllPeersReady(proc[last.p])) =>
          proc[last.p].pause
    /\ (Dispatched("Ready") /\ last.res.cmd.p /\ ~proc[last.p].settings.standalone
        /\ ~AllPeersReady(proc[last.p])) =>
          proc[last.p].pause = last.pause /\ ~InSeq(SetPauseCall(FALSE), last.calls)

====
